---------------------------- MODULE Spec2Model ----------------------------
(***************************************************************************)
(* A model of the route handlers of ibp/views.py (the Inside Books Project *)
(* case-management application) and of the constraints that                *)
(* ibp/schemas.py declares for the same entities.                          *)
(*                                                                         *)
(* The persisted store is the tuple (inmate_unit, lookups, requests,       *)
(* shipments); session_postmarkdate, flashes and current_user are the HTTP *)
(* session; now and today are the wall clock; http is the request in       *)
(* flight and resp the answer its handler gave.                            *)
(***************************************************************************)
EXTENDS Integers, Sequences, FiniteSets, TLC

\* ------------------------------------------------------------------ bounds
MaxRequests == 3
MaxShipments == 2
MaxStale == 1
MaxHistory == 4
MaxClock == 3
MaxFlashes == 3
MaxWorkers == 2

\* ------------------------------------------------------------- value sets
None == "None"
Inmates == {1, 2, 3}
Units == {"Allred", "Beto"}
UnitsOrNone == Units \cup {None}
RequestIds == 1..MaxRequests
Weights == {33}
Postages == {7}

VARIABLES
    lazy_map,              \* map() yields a one-shot iterator (TRUE) or a list
    inmate_unit,           \* Inmate.unit, by inmate autoid
    lookups,               \* Inmate.lookups, by inmate autoid
    requests,              \* the requests table, by Request.autoid
    shipments,             \* the shipments table, by Shipment.autoid
    session_postmarkdate,  \* flask.session['postmarkdate']
    flashes,               \* flask's queue of flashed messages
    current_user,          \* flask_login.current_user
    now,                   \* datetime.now()
    today,                 \* date.today()
    http,                  \* the request in flight, with its inputs
    resp,                  \* the answer to it, once its handler has run
    handlers               \* the view_inmate handlers running side by side

vars == <<lazy_map, inmate_unit, lookups, requests, shipments,
          session_postmarkdate, flashes, current_user, now, today, http, resp,
          handlers>>

store == <<inmate_unit, lookups, requests, shipments>>
session == <<session_postmarkdate, flashes, current_user>>
clock == <<now, today>>

\* ---------------------------------------------------------------- helpers
Min(S) == CHOOSE x \in S : \A y \in S : x <= y
Max(S) == CHOOSE x \in S : \A y \in S : x >= y

\* The rowid SQLite gives a new row of a table whose keys are `ids`.
NewId(ids) == IF ids = {} THEN 1 ELSE Max(ids) + 1

Injective(s) == \A i, j \in 1..Len(s) : i # j => s[i] # s[j]

\* The visiting orders of set(form.request_ids.data): every order of every
\* non-empty set of ids.
Orders == {s \in UNION {[1..k -> RequestIds] : k \in 1..MaxRequests} : Injective(s)}


\* ------------------------------------------------------- dates and strings
\* A string is a sequence of one-character strings; a date is <<y, m, d>>.
Digits == <<"0", "1", "2", "3", "4", "5", "6", "7", "8", "9">>
IsDigit(c) == \E n \in 1..Len(Digits) : Digits[n] = c
DigitVal(c) == (CHOOSE n \in 1..Len(Digits) : Digits[n] = c) - 1

RECURSIVE NumVal(_)
NumVal(s) == IF s = <<>> THEN 0
             ELSE NumVal(SubSeq(s, 1, Len(s) - 1)) * 10 + DigitVal(s[Len(s)])

AllDigits(s) == \A k \in 1..Len(s) : IsDigit(s[k])

IsLeap(y) == (y % 4 = 0 /\ y % 100 # 0) \/ y % 400 = 0
DaysInMonth(y, m) == IF m = 2 THEN (IF IsLeap(y) THEN 29 ELSE 28)
                     ELSE IF m \in {4, 6, 9, 11} THEN 30 ELSE 31

\* The directives of the format '%Y-%m-%d' as strptime matches them:
\* %Y is \d\d\d\d; %m is 1[0-2]|0[1-9]|[1-9]; %d is 3[01]|[12]\d|0[1-9]|[1-9]| [1-9].
MatchesY(t) == Len(t) = 4 /\ AllDigits(t)
MatchesM(t) == /\ Len(t) \in {1, 2}
               /\ AllDigits(t)
               /\ NumVal(t) >= 1
               /\ NumVal(t) <= (IF Len(t) = 1 THEN 9 ELSE 12)
MatchesD(t) == \/ /\ Len(t) \in {1, 2}
                  /\ AllDigits(t)
                  /\ NumVal(t) >= 1
                  /\ NumVal(t) <= (IF Len(t) = 1 THEN 9 ELSE 31)
               \/ /\ Len(t) = 2
                  /\ t[1] = " "
                  /\ IsDigit(t[2])
                  /\ DigitVal(t[2]) >= 1

ValueError == <<>>

\* The ways to read s as <year>-<month>-<day> with nothing left over.
Splits(s) ==
    {ab \in {1, 2} \X {1, 2} :
        /\ Len(s) = 6 + ab[1] + ab[2]
        /\ s[5] = "-"
        /\ s[6 + ab[1]] = "-"
        /\ MatchesY(SubSeq(s, 1, 4))
        /\ MatchesM(SubSeq(s, 6, 5 + ab[1]))
        /\ MatchesD(SubSeq(s, 7 + ab[1], Len(s)))}

DayVal(t) == IF t[1] = " " THEN DigitVal(t[2]) ELSE NumVal(t)

\* Strptime without the check of the day against the month's length.
Strptime_AnyDayOfMonth(s) ==
    IF Splits(s) = {} THEN ValueError
    ELSE LET ab == CHOOSE x \in Splits(s) : TRUE
         IN  <<NumVal(SubSeq(s, 1, 4)), NumVal(SubSeq(s, 6, 5 + ab[1])),
               DayVal(SubSeq(s, 7 + ab[1], Len(s)))>>

\* datetime.strptime(date_str, '%Y-%m-%d').date(): the date, or ValueError
\* when the string does not match or names no day of the calendar.
Strptime(s) ==
    IF Splits(s) = {} THEN ValueError
    ELSE LET ab == CHOOSE x \in Splits(s) : TRUE
             y == NumVal(SubSeq(s, 1, 4))
             m == NumVal(SubSeq(s, 6, 5 + ab[1]))
             d == DayVal(SubSeq(s, 7 + ab[1], Len(s)))
         IN  IF y >= 1 /\ d <= DaysInMonth(y, m) THEN <<y, m, d>> ELSE ValueError

Pad2(n) == <<Digits[(n \div 10) + 1], Digits[(n % 10) + 1]>>
Pad4(n) == Pad2(n \div 100) \o Pad2(n % 100)

\* postmarkdate.strftime("%Y-%m-%d")
Strftime(date) == Pad4(date[1]) \o <<"-">> \o Pad2(date[2]) \o <<"-">> \o Pad2(date[3])

\* The postmark fields a client may send; the empty string is the default
\* flask.request.form.get('postmarkdate', '') takes for a missing field.
DateStrs ==
    { <<>>,
      <<"2", "0", "2", "4", "-", "0", "2", "-", "0", "1">>,
      <<"2", "0", "2", "4", "-", "0", "2", "-", "2", "9">>,
      <<"2", "0", "2", "4", "-", "0", "2", "-", "3", "0">>,
      <<"2", "0", "2", "3", "-", "0", "2", "-", "2", "9">>,
      <<"2", "0", "2", "4", "-", "1", "3", "-", "0", "1">>,
      <<"2", "0", "2", "4", "-", "2", "-", "1">>,
      <<"2", "0", "2", "4", "-", "0", "2", "-", " ", "1">>,
      <<"0", "2", "/", "0", "1", "/", "2", "0", "2", "4">>,
      <<"2", "0", "2", "4", "0", "2", "0", "1">> }

\* The action fields a client may send; None is a form without the field.
ActionFields == {None, "Tossed", "Lost"}

\* An autoid a URL may carry that is no inmate's on record.
NoSuchInmate == Max(Inmates) + 1

NotFound == [status |-> 404, body |-> "Not Found"]

\* ------------------------------------------------- requests and answers
Idle == [op |-> "none"]
NoAnswer == [status |-> 0]

\* A request arrives at the idle worker.
Receive(req) ==
    /\ http = Idle
    /\ http' = req
    /\ UNCHANGED <<lazy_map, handlers, store, session, clock, resp>>

\* The request in flight is for `op` and its handler has not run yet.
Handling(op) == http.op = op /\ resp = NoAnswer

\* The answer leaves; the worker is idle again.
Respond ==
    /\ resp # NoAnswer
    /\ http' = Idle
    /\ resp' = NoAnswer
    /\ UNCHANGED <<lazy_map, handlers, store, session, clock>>

\* ------------------------------------------------------------ add_request
\* views.py:120 flask.request.form.get('action', 'Filled')
FormAction(field) == IF field = None THEN "Filled" ELSE field

\* POST /add_request/<inmate_autoid> with form fields postmarkdate, action
AddRequestCall(inmate_autoid, date_str, action_field) ==
    [op |-> "add_request", inmate_autoid |-> inmate_autoid,
     postmarkdate |-> date_str, action |-> action_field]

add_request ==
    LET postmarkdate == Strptime(http.postmarkdate)
        autoid == NewId(DOMAIN requests)
        request == [inmate |-> http.inmate_autoid,
                    action |-> FormAction(http.action),
                    date_postmarked |-> postmarkdate,
                    date_processed |-> today,
                    shipment |-> 0]
    IN
    /\ Handling("add_request")
    /\ IF http.inmate_autoid \notin Inmates
         THEN /\ resp' = NotFound
              /\ UNCHANGED <<requests, session_postmarkdate>>
       ELSE IF postmarkdate = ValueError
         THEN /\ resp' = [status |-> 400,
                          body |-> "Please enter the USPS postmark date on the envelope."]
              /\ UNCHANGED <<requests, session_postmarkdate>>
       ELSE /\ autoid <= MaxRequests
            /\ session_postmarkdate' = Strftime(postmarkdate)
            /\ requests' = (autoid :> request) @@ requests
            /\ resp' = [status |-> 200, request_autoid |-> autoid]
    /\ UNCHANGED <<lazy_map, handlers, inmate_unit, lookups, shipments, flashes,
                   current_user, now, today, http>>

\* --------------------------------------------------------- delete_request
DeleteRequestCall(autoid) == [op |-> "delete_request", autoid |-> autoid]

delete_request ==
    /\ Handling("delete_request")
    /\ IF http.autoid \notin DOMAIN requests
         THEN /\ resp' = NotFound
              /\ UNCHANGED requests
         ELSE /\ requests' = [r \in DOMAIN requests \ {http.autoid} |-> requests[r]]
              /\ resp' = [status |-> 200, body |-> ""]
    /\ UNCHANGED <<lazy_map, handlers, inmate_unit, lookups, shipments, session, clock, http>>

\* --------------------------------------------------------- search_inmates
\* flash(message, category) queues the message in the session; a message is
\* the sequence of the parts its text is put together from
Flash(queue, message, category) ==
    Append(queue, [message |-> message, category |-> category])

RECURSIVE FlashAll(_, _, _)
FlashAll(queue, messages, category) ==
    IF messages = <<>> THEN queue
    ELSE FlashAll(Flash(queue, <<Head(messages)>>, category), Tail(messages), category)

Render(template, context) ==
    [status |-> 200, kind |-> "render", template |-> template, context |-> context]
Redirect(endpoint, args) ==
    [status |-> 302, kind |-> "redirect", endpoint |-> endpoint, args |-> args]

\* A page shown to the user takes the queued messages with it.
get_flashed_messages ==
    /\ http = Idle
    /\ flashes # <<>>
    /\ flashes' = <<>>
    /\ UNCHANGED <<lazy_map, handlers, store, session_postmarkdate, current_user, clock, http, resp>>

\* views.py:70 and views.py:75
NoResult(inmates) == Len(inmates) = 0
\* SingleResult taking the first of several results too.
SingleResult_OrMore(inmates) == Len(inmates) >= 1
SingleResult(inmates) == Len(inmates) = 1

\* GET or POST /inmates. `valid` is what form.validate() makes of the form,
\* `by_name` whether first and last name are both given; `found` and `errors`
\* are what the query of the providers returns.
SearchInmatesCall(method, valid, by_name, found, errors) ==
    [op |-> "search_inmates", method |-> method, valid |-> valid,
     by_name |-> by_name, found |-> found, errors |-> errors]

search_inmates ==
    LET inmates == http.found
        warned == FlashAll(flashes, http.errors, "alert-warning")
    IN
    /\ Handling("search_inmates")
    /\ IF http.method = "GET" \/ ~http.valid
         THEN /\ resp' = Render("search_inmates.html", <<>>)
              /\ UNCHANGED flashes
       ELSE IF NoResult(inmates)
         THEN /\ Len(warned) < MaxFlashes
              /\ flashes' = Flash(warned, <<"no inmates matched your search">>, "alert-warning")
              /\ resp' = Render("search_inmates.html", <<>>)
       ELSE IF SingleResult(inmates)
         THEN /\ Len(warned) <= MaxFlashes
              /\ flashes' = warned
              /\ resp' = Redirect("view_inmate", inmates[1])
       ELSE /\ Len(warned) <= MaxFlashes
            /\ flashes' = warned
            /\ resp' = Render("list_inmates.html", inmates)
    /\ UNCHANGED <<lazy_map, handlers, store, session_postmarkdate, current_user, clock, http>>

\* -------------------------------------------------- login and unauthorized
\* flask_login's anonymous user: no email, no rights.
Anonymous == [email |-> None, authorized |-> FALSE]

\* The users Google may vouch for, and whether each may use the application.
Users == {[email |-> "ann@example.org", authorized |-> TRUE],
          [email |-> "bob@example.org", authorized |-> FALSE]}

\* GET /login/google?error=...|code=...&state=...
AuthorizedCall(error, user, state) ==
    [op |-> "authorized", error |-> error, user |-> user, state |-> state]

authorized ==
    /\ Handling("authorized")
    /\ Len(flashes) < MaxFlashes
    /\ IF http.error # None
         THEN /\ flashes' = Flash(flashes, <<"google returned with error: ", http.error>>,
                                  "alert-danger")
              /\ resp' = Redirect("index", <<>>)
              /\ UNCHANGED current_user
         ELSE /\ current_user' = http.user
              /\ flashes' = Flash(flashes, <<"successfully logged in!">>, "alert-success")
              /\ resp' = IF http.state # None
                           THEN [status |-> 302, kind |-> "redirect", url |-> http.state]
                           ELSE Redirect("search_inmates", <<>>)
    /\ UNCHANGED <<lazy_map, handlers, store, session_postmarkdate, clock, http>>

\* GET /logout
LogoutCall == [op |-> "logout"]

logout ==
    /\ Handling("logout")
    /\ current_user' = Anonymous
    /\ resp' = Redirect("index", <<>>)
    /\ UNCHANGED <<lazy_map, handlers, store, session_postmarkdate, flashes, clock, http>>

\* UnauthorizedMessage without the else branch of the try.
UnauthorizedMessage_AlwaysAnonymous(user) == <<"Anonymous login attempt failed">>

\* views.py:505-510 the anonymous user has no email attribute
UnauthorizedMessage(user) ==
    IF user.email = None
      THEN <<"Anonymous login attempt failed">>
      ELSE <<"'", user.email, "' is not authorized for access">>

\* views.py:514
UnauthorizedTarget == "index"

unauthorized ==
    /\ Len(flashes) < MaxFlashes
    /\ flashes' = Flash(flashes, UnauthorizedMessage(current_user), "alert-danger")
    /\ resp' = Redirect(UnauthorizedTarget, <<>>)

\* A request for a route behind the login manager: the page for a user who
\* may see it, the unauthorized handler for anyone else.
ProtectedCall == [op |-> "protected"]

MayAccess(user) == user.email # None /\ user.authorized

protected ==
    /\ Handling("protected")
    /\ IF MayAccess(current_user)
         THEN /\ resp' = Render("protected", <<>>)
              /\ UNCHANGED flashes
         ELSE unauthorized
    /\ UNCHANGED <<lazy_map, handlers, store, session_postmarkdate, current_user, clock, http>>

\* ------------------------------------------------------------ view_inmate
\* views.py:93 del inmate.lookups[2:] keeps the entries before index 2
KeepLookups == 2
\* Truncated with the slice one entry later.
Truncated_OneLater(history) == SubSeq(history, 1, Min({KeepLookups + 1, Len(history)}))
Truncated(history) == SubSeq(history, 1, Min({KeepLookups, Len(history)}))

\* GET /view_inmate/<autoid>
ViewInmateCall(autoid) == [op |-> "view_inmate", autoid |-> autoid]

view_inmate ==
    /\ Handling("view_inmate")
    /\ IF http.autoid \notin Inmates
         THEN /\ resp' = NotFound
              /\ UNCHANGED lookups
         ELSE /\ lookups' = [lookups EXCEPT
                               ![http.autoid] = Append(Truncated(@), now)]
              /\ resp' = [status |-> 200, postmarkdate |-> session_postmarkdate,
                          date_today |-> today]
    /\ UNCHANGED <<lazy_map, handlers, inmate_unit, requests, shipments, session, clock, http>>

\* The wall clock moves on between two readings of datetime.now().
Tick ==
    /\ now < MaxClock
    /\ now' = now + 1
    /\ UNCHANGED <<lazy_map, handlers, store, session, today, http, resp>>

\* ------------------------------------------- view_inmate, side by side
\* The server's workers, each handling one request at a time with a database
\* session of its own.
Workers == 1..MaxWorkers

\* A worker between two requests, with the status of its last answer.
Resting(status) == [pc |-> "resting", status |-> status]

\* views.py:87-94 the worker loads the inmate with the lookups on record and
\* changes its own copy of the list. No two readings of datetime.now() are
\* the same: the clock moves on with each.
view_inmate_load(w, autoid) ==
    /\ handlers[w].pc = "resting"
    /\ now < MaxClock
    /\ now' = now + 1
    /\ IF autoid \notin Inmates
         THEN handlers' = [handlers EXCEPT ![w] = Resting(NotFound.status)]
         ELSE handlers' = [handlers EXCEPT ![w] =
                             [pc |-> "loaded", autoid |-> autoid,
                              loaded |-> lookups[autoid],
                              kept |-> Truncated(lookups[autoid]),
                              appended |-> now]]
    /\ UNCHANGED <<lazy_map, store, session, today, http, resp>>

\* The lookups of a list that are not among those of another.
Without(history, gone) ==
    SelectSeq(history, LAMBDA t : \A k \in 1..Len(gone) : gone[k] # t)

\* views.py:95 session.commit() by rows: the rows of the lookups that the
\* worker took off its list are deleted, the row of the lookup it appended
\* is inserted; rows written by other workers since it loaded the list stay.
CommittedByRow(w) ==
    LET mine == handlers[w]
        deleted == SubSeq(mine.loaded, Len(mine.kept) + 1, Len(mine.loaded))
    IN  Append(Without(lookups[mine.autoid], deleted), mine.appended)

\* views.py:95 session.commit() of the list as the worker has it, over
\* whatever is on record.
CommittedWhole(w) == Append(handlers[w].kept, handlers[w].appended)

\* views.py:95-105 the commit, in either way, and the page.
view_inmate_commit(w) ==
    /\ handlers[w].pc = "loaded"
    /\ \/ lookups' = [lookups EXCEPT ![handlers[w].autoid] = CommittedByRow(w)]
       \/ lookups' = [lookups EXCEPT ![handlers[w].autoid] = CommittedWhole(w)]
    /\ handlers' = [handlers EXCEPT ![w] = Resting(200)]
    /\ UNCHANGED <<lazy_map, inmate_unit, requests, shipments, session, clock, http, resp>>

\* ---------------------------------------------------------- ship_requests
\* views.py:421-422 get_request_from_autoid answers 404 for an unknown autoid.
Resolves(autoid) == autoid \in DOMAIN requests

StoredUnit(autoid) == inmate_unit[requests[autoid].inmate]

\* views.py:424 requests = map(get_request_from_autoid, request_ids): the
\* positions of `order` that the call itself resolves. A list resolves every
\* position at once; a one-shot iterator resolves none until it is pulled.
ResolvedByMap(order) == IF lazy_map THEN {} ELSE 1..Len(order)

\* views.py:425 the positions at which next(...) stops pulling: a request
\* whose inmate has a unit, or (pulling lazily) an autoid that is not found.
HasUnit(autoid) == StoredUnit(autoid) # None
GeneratorStops(order) ==
    {j \in 1..Len(order) : ~Resolves(order[j]) \/ HasUnit(order[j])}

\* views.py:427 the first position the for loop visits, given the position k
\* at which next(...) stopped: a list is walked again from its start, an
\* iterator goes on after k.
LoopStart(k) == IF lazy_map THEN k + 1 ELSE 1

\* views.py:431 and views.py:436, on the unit the refresh left the inmate with
Unassigned(u) == u = None
\* OtherUnit comparing the inmate's unit with itself.
OtherUnit_SelfCompared(u, unit) == u # u
OtherUnit(u, unit) == u # unit

\* views.py:441-442 Shipment(requests=requests, ...): the requests the new
\* shipment takes. A list gives all of them; the iterator has nothing left
\* once the for loop has run to its end.
ShipmentRequests(order) ==
    IF lazy_map THEN {} ELSE {order[j] : j \in 1..Len(order)}

\* The run of views.py:424-439 on the requests in visiting order `order`,
\* where fetched[i] is the unit try_fetch_update leaves inmate i with:
\* the answer, the shipment's unit, and the inmates refreshed on the way.
ShipOutcome(order, fetched) ==
    LET n == Len(order)
        inm(j) == requests[order[j]].inmate
        eagerMiss == {j \in ResolvedByMap(order) : ~Resolves(order[j])}
        gen == GeneratorStops(order)
        k == Min(gen)
        unit == StoredUnit(order[k])
        start == LoopStart(k)
        stops == {j \in start..n :
                    \/ ~Resolves(order[j])
                    \/ Unassigned(fetched[inm(j)])
                    \/ OtherUnit(fetched[inm(j)], unit)}
        f == Min(stops)
        seen(last) == {inm(j) : j \in start..last}
    IN  IF eagerMiss # {}
          THEN [resp |-> NotFound, unit |-> None, refreshed |-> {}]
        ELSE IF gen = {}
          THEN [resp |-> [status |-> 500, body |-> "StopIteration"],
                unit |-> None, refreshed |-> {}]
        ELSE IF ~Resolves(order[k])
          THEN [resp |-> NotFound, unit |-> None, refreshed |-> {}]
        ELSE IF stops = {}
          THEN [resp |-> [status |-> 200, body |-> "{}"],
                unit |-> unit, refreshed |-> seen(n)]
        ELSE IF ~Resolves(order[f])
          THEN [resp |-> NotFound, unit |-> unit, refreshed |-> seen(f - 1)]
        ELSE IF Unassigned(fetched[inm(f)])
          THEN [resp |-> [status |-> 400, body |-> "inmate for request %d is unassigned"],
                unit |-> unit, refreshed |-> seen(f)]
        ELSE [resp |-> [status |-> 400, body |-> "inmates are not all assigned to unit",
                        unit |-> unit],
              unit |-> unit, refreshed |-> seen(f)]

\* views.py:441-445 the row of the new shipment
NewShipment(unit, weight, postage) ==
    [unit |-> unit, weight |-> weight, postage |-> postage, date_shipped |-> today]

\* inmate.try_fetch_update(), for every inmate the loop reached
TryFetchUpdate(refreshed, fetched) ==
    [i \in Inmates |-> IF i \in refreshed THEN fetched[i] ELSE inmate_unit[i]]

\* POST /ship_requests with form fields request_ids, weight, postage; `valid`
\* is what form.validate() makes of the form, `order` the order in which the
\* set of request ids is visited, `fetched` what the provider answers.
ShipRequestsCall(valid, order, weight, postage, fetched) ==
    [op |-> "ship_requests", valid |-> valid, order |-> order,
     weight |-> weight, postage |-> postage, fetched |-> fetched]

ship_requests(accepted) ==
    LET out == ShipOutcome(http.order, http.fetched)
        autoid == NewId(DOMAIN shipments)
        taken == ShipmentRequests(http.order)
    IN
    /\ Handling("ship_requests")
    /\ IF ~http.valid
         THEN /\ resp' = [status |-> 400, body |-> "form data invalid"]
              /\ UNCHANGED <<inmate_unit, requests, shipments>>
       ELSE IF out.resp.status # 200
         THEN /\ resp' = out.resp
              /\ inmate_unit' = TryFetchUpdate(out.refreshed, http.fetched)
              /\ UNCHANGED <<requests, shipments>>
       ELSE IF lazy_map /\ ~accepted
         THEN \* the relationship refuses a collection that is not list-like
              /\ resp' = [status |-> 500, body |-> "TypeError"]
              /\ inmate_unit' = TryFetchUpdate(out.refreshed, http.fetched)
              /\ UNCHANGED <<requests, shipments>>
       ELSE /\ autoid <= MaxShipments
            /\ inmate_unit' = TryFetchUpdate(out.refreshed, http.fetched)
            /\ shipments' = (autoid :> NewShipment(out.unit, http.weight, http.postage))
                               @@ shipments
            /\ requests' = [r \in DOMAIN requests |->
                              IF r \in taken
                                THEN [requests[r] EXCEPT !.shipment = autoid]
                                ELSE requests[r]]
            /\ resp' = out.resp
    /\ UNCHANGED <<lazy_map, handlers, lookups, session, clock, http>>

\* -------------------------------------------------------- shipping_volume
\* The order of the characters that dates are written with, as SQLite's
\* comparison of text has it.
Collation == <<" ", "-", "/", "0", "1", "2", "3", "4", "5", "6", "7", "8", "9">>
Ord(c) == CHOOSE n \in 1..Len(Collation) : Collation[n] = c

\* a < b as text: at the first difference, or as a proper prefix
RECURSIVE TextLess(_, _)
TextLess(a, b) ==
    IF b = <<>> THEN FALSE
    ELSE IF a = <<>> THEN TRUE
    ELSE IF Head(a) # Head(b) THEN Ord(Head(a)) < Ord(Head(b))
    ELSE TextLess(Tail(a), Tail(b))

\* strftime('%Y', date) and strftime('%Y-%m', date)
YearText(date) == Pad4(date[1])
YearMonthText(date) == Pad4(date[1]) \o <<"-">> \o Pad2(date[2])

\* views.py:580 WHERE strftime('%Y', date_shipped) >= '2006-06'
Cutoff == <<"2", "0", "0", "6", "-", "0", "6">>
OnOrAfterCutoff(date) == ~TextLess(YearText(date), Cutoff)

RECURSIVE Sum(_, _)
Sum(f, ids) ==
    IF ids = {} THEN 0
    ELSE LET x == CHOOSE y \in ids : TRUE IN f[x] + Sum(f, ids \ {x})

\* The texts of a set in ascending order.
RECURSIVE Ascending(_)
Ascending(texts) ==
    IF texts = {} THEN <<>>
    ELSE LET least == CHOOSE t \in texts : \A u \in texts \ {t} : TextLess(t, u)
         IN  <<least>> \o Ascending(texts \ {least})

\* views.py:586 pounds = r[1] // 16
OuncesPerPound == 16
\* Pounds rounded to the nearest pound.
Pounds_Rounded(volume) == (2 * volume + OuncesPerPound) \div (2 * OuncesPerPound)
Pounds(volume) == volume \div OuncesPerPound

\* views.py:575-583 the rows of the query: one per month with a shipment that
\* the WHERE clause lets through, months ascending, each with the sum of the
\* weights shipped in it.
ShippingVolumeRows ==
    LET kept == {sid \in DOMAIN shipments : OnOrAfterCutoff(shipments[sid].date_shipped)}
        month(sid) == YearMonthText(shipments[sid].date_shipped)
        months == Ascending({month(sid) : sid \in kept})
        weight == [sid \in kept |-> shipments[sid].weight]
    IN  [k \in 1..Len(months) |->
           <<months[k], Sum(weight, {sid \in kept : month(sid) = months[k]})>>]

\* GET /metrics/shipping_volume
ShippingVolumeCall == [op |-> "shipping_volume"]

shipping_volume ==
    LET rows == ShippingVolumeRows IN
    /\ Handling("shipping_volume")
    /\ resp' = [status |-> 200,
                dates |-> [k \in 1..Len(rows) |-> rows[k][1]],
                pounds |-> [k \in 1..Len(rows) |-> Pounds(rows[k][2])]]
    /\ UNCHANGED <<lazy_map, handlers, store, session, clock, http>>

\* ---------------------------------------------------------- request_counts
\* views.py:533-535 WHERE action = 'Filled' AND
\* strftime('%Y', date_postmarked) >= '2006-06'
FilledSinceCutoff ==
    {r \in DOMAIN requests :
        /\ requests[r].action = "Filled"
        /\ OnOrAfterCutoff(requests[r].date_postmarked)}

\* views.py:530-538 one row per month with a request the WHERE clause lets
\* through, with the number of them. The rows are ordered by the postmark
\* date of a request of each group, which orders them by month.
RequestCountsRows ==
    LET kept == FilledSinceCutoff
        month(r) == YearMonthText(requests[r].date_postmarked)
        months == Ascending({month(r) : r \in kept})
    IN  [k \in 1..Len(months) |->
           <<months[k], Cardinality({r \in kept : month(r) = months[k]})>>]

\* GET /metrics/request_counts
RequestCountsCall == [op |-> "request_counts"]

request_counts ==
    LET rows == RequestCountsRows IN
    /\ Handling("request_counts")
    /\ resp' = [status |-> 200,
                dates |-> [k \in 1..Len(rows) |-> rows[k][1]],
                counts |-> [k \in 1..Len(rows) |-> rows[k][2]]]
    /\ UNCHANGED <<lazy_map, handlers, store, session, clock, http>>

\* ------------------------------------------------------ new_request_counts
\* views.py:554-561 the inner query: for each inmate with a request the WHERE
\* clause lets through, the least month of those requests.
FirstMonth(inmate) ==
    LET own == {r \in FilledSinceCutoff : requests[r].inmate = inmate}
        months == {YearMonthText(requests[r].date_postmarked) : r \in own}
    IN  CHOOSE t \in months : \A u \in months \ {t} : TextLess(t, u)

\* views.py:552-564 the inmates counted by that month, months ascending.
NewRequestCountsRows ==
    LET inmates == {requests[r].inmate : r \in FilledSinceCutoff}
        months == Ascending({FirstMonth(i) : i \in inmates})
    IN  [k \in 1..Len(months) |->
           <<months[k], Cardinality({i \in inmates : FirstMonth(i) = months[k]})>>]

\* GET /metrics/new_request_counts
NewRequestCountsCall == [op |-> "new_request_counts"]

new_request_counts ==
    LET rows == NewRequestCountsRows IN
    /\ Handling("new_request_counts")
    /\ resp' = [status |-> 200,
                dates |-> [k \in 1..Len(rows) |-> rows[k][1]],
                counts |-> [k \in 1..Len(rows) |-> rows[k][2]]]
    /\ UNCHANGED <<lazy_map, handlers, store, session, clock, http>>

\* ------------------------------------------------------------------ Init
Calendar == << <<2006, 6, 30>>, <<2023, 5, 1>>, <<2023, 5, 2>>, <<2023, 6, 1>> >>

\* The application starts on one interpreter or the other, with its inmates
\* on record and not yet assigned to units.
Init ==
    /\ lazy_map \in BOOLEAN
    /\ handlers = [w \in Workers |-> Resting(0)]
    /\ inmate_unit = [i \in Inmates |-> None]
    /\ lookups = [i \in Inmates |-> <<>>]
    /\ requests = <<>>
    /\ shipments = <<>>
    /\ session_postmarkdate = None
    /\ flashes = <<>>
    /\ current_user = Anonymous
    /\ now = 0
    /\ today = Calendar[1]
    /\ http = Idle
    /\ resp = NoAnswer

\* ------------------------------------------------- shipping: SpecShip
ValidDate == <<"2", "0", "2", "4", "-", "0", "2", "-", "0", "1">>

\* What the provider may answer during one call: the stored units, but for
\* at most MaxStale inmates whose unit has changed since they were stored.
Fetches ==
    {f \in [Inmates -> UnitsOrNone] :
        Cardinality({i \in Inmates : f[i] # inmate_unit[i]}) <= MaxStale}

\* The requests on record when the shipping client calls: one per inmate,
\* the last of them deleted again or not.
InitShip ==
    /\ lazy_map \in BOOLEAN
    /\ handlers = [w \in Workers |-> Resting(0)]
    /\ inmate_unit \in [Inmates -> UnitsOrNone]
    /\ lookups = [i \in Inmates |-> <<>>]
    /\ \E last \in {MaxRequests - 1, MaxRequests} :
          requests = [r \in 1..last |->
                        [inmate |-> ((r - 1) % Cardinality(Inmates)) + 1,
                         action |-> "Filled",
                         date_postmarked |-> Strptime(ValidDate),
                         date_processed |-> Calendar[1], shipment |-> 0]]
    /\ shipments = <<>>
    /\ session_postmarkdate = None
    /\ flashes = <<>>
    /\ current_user = Anonymous
    /\ now = 0
    /\ today = Calendar[1]
    /\ http = Idle
    /\ resp = NoAnswer

AnyOrder == CHOOSE s \in Orders : TRUE
AnyWeight == CHOOSE w \in Weights : TRUE
AnyPostage == CHOOSE p \in Postages : TRUE

ReceiveShip ==
    /\ http = Idle
    /\ \/ Receive(ShipRequestsCall(FALSE, AnyOrder, AnyWeight, AnyPostage, inmate_unit))
       \/ \E order \in Orders, weight \in Weights, postage \in Postages :
             \E fetched \in Fetches :
                Receive(ShipRequestsCall(TRUE, order, weight, postage, fetched))

NextShip ==
    \/ ReceiveShip
    \/ \E accepted \in {lazy_map, FALSE} : ship_requests(accepted)
    \/ Respond

SpecShip == InitShip /\ [][NextShip]_vars

\* ------------------------------------------------ shipping: the claims
IdsOf(order) == {order[j] : j \in 1..Len(order)}
AllResolve(order) == \A a \in IdsOf(order) : Resolves(a)
UnitsOf(order) == {StoredUnit(a) : a \in IdsOf(order)}
\* The provider has nothing new to say about the inmates of the call.
InSync(order, fetched) ==
    \A a \in IdsOf(order) : fetched[requests[a].inmate] = StoredUnit(a)
AttachedTo(reqs, sid) == {r \in DOMAIN reqs : reqs[r].shipment = sid}

\* A ship_requests call with a valid form, all of whose request ids resolve,
\* about inmates whose stored unit is what the provider has, is being handled.
ShippingResolved ==
    /\ Handling("ship_requests")
    /\ http.valid
    /\ AllResolve(http.order)
    /\ InSync(http.order, http.fetched)

\* C1: every ship_requests call with a valid form in which some resolved
\* request's inmate has no unit answers 400 and leaves the shipments as they
\* were, whatever the visiting order.
C1_UnassignedAnswers400 ==
    [][(ShippingResolved /\ None \in UnitsOf(http.order) /\ resp' # NoAnswer)
          => (resp'.status = 400 /\ shipments' = shipments)]_vars

\* C2: every ship_requests call with a valid form whose requests' inmates
\* have at least two different units answers 400, adds no shipment and
\* attaches no request, whatever the visiting order.
C2_MixedUnitsAnswer400 ==
    [][(/\ ShippingResolved
        /\ Cardinality(UnitsOf(http.order) \ {None}) >= 2
        /\ resp' # NoAnswer)
          => ( /\ resp'.status = 400
               /\ shipments' = shipments
               /\ requests' = requests )]_vars

\* A call was refused for mixed units although the request visited first has
\* no unit: the unit was fixed by the second request and broken by the third.
C2_Witness ==
    /\ http.op = "ship_requests"
    /\ http.valid
    /\ AllResolve(http.order)
    /\ InSync(http.order, http.fetched)
    /\ Len(http.order) = 3
    /\ StoredUnit(http.order[1]) = None
    /\ StoredUnit(http.order[2]) # None
    /\ StoredUnit(http.order[3]) \notin {None, StoredUnit(http.order[2])}
    /\ resp.status = 400
    /\ resp.body = "inmates are not all assigned to unit"

\* C3: a ship_requests call with a valid form whose requests all resolve and
\* share one unit adds exactly one shipment, of that unit and of the form's
\* weight and postage, holding exactly the submitted requests.
C3_OneShipmentOfAllRequests ==
    [][(/\ ShippingResolved
        /\ None \notin UnitsOf(http.order)
        /\ Cardinality(UnitsOf(http.order)) = 1
        /\ resp' # NoAnswer)
          => \E sid \in DOMAIN shipments' \ DOMAIN shipments :
                /\ DOMAIN shipments' = DOMAIN shipments \cup {sid}
                /\ shipments'[sid].unit \in UnitsOf(http.order)
                /\ shipments'[sid].weight = http.weight
                /\ shipments'[sid].postage = http.postage
                /\ AttachedTo(requests', sid) = IdsOf(http.order)]_vars

\* C9: no ship_requests call takes a request away from the shipment it is in
\* (a request has one shipment reference, so it is never in two shipments).
C9_ShipmentKeepsRequests ==
    [][(Handling("ship_requests") /\ resp' # NoAnswer) =>
          \A r \in DOMAIN requests :
             requests[r].shipment # 0 =>
                (r \in DOMAIN requests' /\ requests'[r].shipment = requests[r].shipment)]_vars


\* ------------------------------------------- adding requests: SpecAdd
ReceiveAdd ==
    /\ http = Idle
    /\ \/ \E i \in {Min(Inmates), NoSuchInmate}, d \in DateStrs, a \in ActionFields :
             Receive(AddRequestCall(i, d, a))
       \/ \E r \in RequestIds : Receive(DeleteRequestCall(r))

NextAdd ==
    \/ ReceiveAdd
    \/ add_request
    \/ delete_request
    \/ Respond

SpecAdd == Init /\ [][NextAdd]_vars

\* The string is ten characters: four digits, two digits and two digits,
\* with "-" between them.
InYMDForm(s) ==
    /\ Len(s) = 10
    /\ s[5] = "-"
    /\ s[8] = "-"
    /\ \A k \in {1, 2, 3, 4, 6, 7, 9, 10} : IsDigit(s[k])

\* A string in that form names a day of the calendar.
NamesRealDate(s) ==
    LET y == NumVal(SubSeq(s, 1, 4))
        m == NumVal(SubSeq(s, 6, 7))
        d == NumVal(SubSeq(s, 9, 10))
    IN  y >= 1 /\ m \in 1..12 /\ d >= 1 /\ d <= DaysInMonth(y, m)

\* The call is refused and nothing is written.
RefusedUnchanged ==
    /\ resp'.status = 400
    /\ requests' = requests
    /\ session_postmarkdate' = session_postmarkdate

\* C4 as stated: add_request for an inmate on record with a postmark date
\* that is missing, not in YYYY-MM-DD form or not a real date answers 400 and
\* changes neither the requests nor the cached postmark date.
C4_BadDateRefused ==
    [][(/\ Handling("add_request")
        /\ http.inmate_autoid \in Inmates
        /\ ~(InYMDForm(http.postmarkdate) /\ NamesRealDate(http.postmarkdate))
        /\ resp' # NoAnswer)
          => RefusedUnchanged]_vars

\* The string with the zero padding of month and day put back, and a space
\* before a one-digit day read as that padding.
ZeroPadded(s) ==
    LET dashes == {k \in 1..Len(s) : s[k] = "-"}
        a == Min(dashes)
        b == Max(dashes)
        pad(t) == IF Len(t) = 1 THEN <<"0">> \o t
                  ELSE IF Len(t) = 2 /\ t[1] = " " THEN <<"0", t[2]>>
                  ELSE t
    IN  IF Cardinality(dashes) # 2 THEN s
        ELSE SubSeq(s, 1, a) \o pad(SubSeq(s, a + 1, b - 1)) \o <<"-">>
                \o pad(SubSeq(s, b + 1, Len(s)))

\* C4 as amended: the date is refused, with nothing written, when it is
\* missing, or is not in YYYY-MM-DD form even with the zero padding of month
\* and day put back, or is not a real date.
C4_UnparseableDateRefused ==
    [][(/\ Handling("add_request")
        /\ http.inmate_autoid \in Inmates
        /\ ~(/\ InYMDForm(ZeroPadded(http.postmarkdate))
             /\ NamesRealDate(ZeroPadded(http.postmarkdate)))
        /\ resp' # NoAnswer)
          => RefusedUnchanged]_vars

\* The date "2024-02-30" was refused after an earlier date had been cached
\* and a request stored.
C4_Witness ==
    /\ http.op = "add_request"
    /\ http.inmate_autoid \in Inmates
    /\ http.postmarkdate = <<"2", "0", "2", "4", "-", "0", "2", "-", "3", "0">>
    /\ resp.status = 400
    /\ session_postmarkdate # None
    /\ DOMAIN requests # {}

\* C8: every request on record has action "Tossed" or "Filled".
C8_ActionTossedOrFilled ==
    \A r \in DOMAIN requests : requests[r].action \in {"Tossed", "Filled"}


\* --------------------------------------------- viewing inmates: SpecView
\* The history on record for the inmate viewed: any number of lookups made
\* before the clock of the model started, oldest first.
PastLookups(n) == [k \in 1..n |-> k - n - 1]

InitView ==
    /\ lazy_map \in BOOLEAN
    /\ handlers = [w \in Workers |-> Resting(0)]
    /\ inmate_unit = [i \in Inmates |-> None]
    /\ \E n \in 0..MaxHistory :
          lookups = [i \in Inmates |-> IF i = Min(Inmates) THEN PastLookups(n) ELSE <<>>]
    /\ requests = <<>>
    /\ shipments = <<>>
    /\ session_postmarkdate = None
    /\ flashes = <<>>
    /\ current_user = Anonymous
    /\ now = 0
    /\ today = Calendar[1]
    /\ http = Idle
    /\ resp = NoAnswer

ReceiveView ==
    /\ http = Idle
    /\ \E i \in {Min(Inmates), NoSuchInmate} : Receive(ViewInmateCall(i))

NextView ==
    \/ ReceiveView
    \/ view_inmate
    \/ Tick
    \/ Respond

SpecView == InitView /\ [][NextView]_vars

\* C5: a view of an inmate on record leaves at most 3 lookups, of which at
\* most 2 were there before, and adds exactly one: the time of the view.
C5_HistoryCappedAtThree ==
    [][(Handling("view_inmate") /\ http.autoid \in Inmates /\ resp' # NoAnswer)
          => LET before == lookups[http.autoid]
                 after == lookups'[http.autoid]
                 kept == SubSeq(after, 1, Len(after) - 1)
             IN  /\ Len(after) <= 3
                 /\ Len(after) >= 1
                 /\ after[Len(after)] = now
                 /\ Len(kept) <= 2
                 /\ Len(kept) <= Len(before)
                 /\ kept = SubSeq(before, 1, Len(kept))
                 /\ Len(before) < 2 => Len(kept) = Len(before)]_vars

\* An inmate who had MaxHistory lookups on record has been viewed at the
\* latest clock reading: 3 lookups are left, the oldest one and this view's.
C5_Witness ==
    /\ http.op = "view_inmate"
    /\ resp.status = 200
    /\ now = MaxClock
    /\ Len(lookups[http.autoid]) = 3
    /\ lookups[http.autoid][1] = 0 - MaxHistory
    /\ lookups[http.autoid][3] = now


\* The lookup made by the view before this one: the last on record.
LatestLookup(history) == history[Len(history)]

ReceiveWorkers ==
    \E w \in Workers, i \in {Min(Inmates), NoSuchInmate} : view_inmate_load(w, i)

NextWorkers ==
    \/ ReceiveWorkers
    \/ \E w \in Workers : view_inmate_commit(w)

SpecWorkers == InitView /\ [][NextWorkers]_vars

\* The lookups on record that worker w has not seen: those committed by other
\* workers since it loaded the list.
Unseen(w) == Without(lookups[handlers[w].autoid], handlers[w].loaded)

\* C13: whichever way the handlers of the same inmate interleave, a commit
\* leaves at most 3 lookups on record, the one it appended among them, and
\* takes away none that another handler committed in the meantime.
C13_ConcurrentViewsCappedNoneLost ==
    [][\A w \in Workers :
          (handlers[w].pc = "loaded" /\ handlers'[w].pc = "resting")
             => LET after == lookups'[handlers[w].autoid] IN
                /\ Len(after) <= 3
                /\ \E k \in 1..Len(after) : after[k] = handlers[w].appended
                /\ \A u \in 1..Len(Unseen(w)) :
                      \E k \in 1..Len(after) : after[k] = Unseen(w)[u]]_vars

\* ------------------------------------------------- searching: SpecSearch
\* What a query may find: any inmates on record, in any order.
Found == {f \in UNION {[1..k -> Inmates] : k \in 0..Cardinality(Inmates)} : Injective(f)}

\* What the providers may report: each at most one error, in any order.
Providers == {"TDCJ", "FBOP"}
ProviderErrors ==
    {e \in UNION {[1..k -> Providers] : k \in 0..Cardinality(Providers)} : Injective(e)}

ReceiveSearch ==
    /\ http = Idle
    /\ \/ Receive(SearchInmatesCall("GET", FALSE, FALSE, <<>>, <<>>))
       \/ Receive(SearchInmatesCall("POST", FALSE, FALSE, <<>>, <<>>))
       \/ \E by_name \in BOOLEAN, found \in Found, errors \in ProviderErrors :
             Receive(SearchInmatesCall("POST", TRUE, by_name, found, errors))

NextSearch ==
    \/ ReceiveSearch
    \/ search_inmates
    \/ get_flashed_messages
    \/ Respond

SpecSearch == Init /\ [][NextSearch]_vars

\* The messages the call queued, given the queue before and after it.
Queued(before, after) == SubSeq(after, Len(before) + 1, Len(after))

\* C6: a search with a valid form flashes every provider error as a warning
\* and then goes by the number of results alone: none flashes "no inmates
\* matched your search" and renders the search form again, one redirects to
\* view_inmate of that inmate, more render the list of them.
C6_DispatchOnResultCount ==
    [][(/\ Handling("search_inmates")
        /\ http.method = "POST"
        /\ http.valid
        /\ resp' # NoAnswer)
          => LET n == Len(http.found)
                 queued == Queued(flashes, flashes')
                 ne == Len(http.errors)
             IN  /\ SubSeq(flashes', 1, Len(flashes)) = flashes
                 /\ Len(queued) = ne + (IF n = 0 THEN 1 ELSE 0)
                 /\ \A k \in 1..ne :
                       queued[k] = [message |-> <<http.errors[k]>>, category |-> "alert-warning"]
                 /\ n = 0 =>
                       /\ queued[ne + 1] = [message |-> <<"no inmates matched your search">>,
                                            category |-> "alert-warning"]
                       /\ resp'.kind = "render"
                       /\ resp'.template = "search_inmates.html"
                 /\ n = 1 =>
                       /\ resp'.kind = "redirect"
                       /\ resp'.endpoint = "view_inmate"
                       /\ resp'.args = http.found[1]
                 /\ n >= 2 =>
                       /\ resp'.kind = "render"
                       /\ resp'.template = "list_inmates.html"
                       /\ resp'.context = http.found]_vars

\* A search that found one inmate while both providers failed was answered
\* by a redirect, both errors queued as warnings.
C6_Witness ==
    /\ http.op = "search_inmates"
    /\ http.method = "POST"
    /\ http.valid
    /\ Len(http.found) = 1
    /\ Len(http.errors) = 2
    /\ resp.status = 302
    /\ Len(flashes) >= 2


\* ---------------------------------------------------- access: SpecAuth
ReceiveAuth ==
    /\ http = Idle
    /\ \/ Receive(ProtectedCall)
       \/ Receive(LogoutCall)
       \/ Receive(AuthorizedCall("access_denied", Anonymous, None))
       \/ \E user \in Users, state \in {None, "/list_units"} :
             Receive(AuthorizedCall(None, user, state))

NextAuth ==
    \/ ReceiveAuth
    \/ authorized
    \/ logout
    \/ protected
    \/ get_flashed_messages
    \/ Respond

SpecAuth == Init /\ [][NextAuth]_vars

\* A request for a protected route by someone who may not see it is being
\* answered.
Refusing ==
    /\ Handling("protected")
    /\ ~MayAccess(current_user)
    /\ resp' # NoAnswer

\* The message flashed last is a danger alert: the anonymous one for a user
\* without an email, one naming the email for a user who has one.
FlashedRefusal ==
    LET last == flashes'[Len(flashes')] IN
    /\ Len(flashes') = Len(flashes) + 1
    /\ last.category = "alert-danger"
    /\ current_user.email = None => last.message = <<"Anonymous login attempt failed">>
    /\ current_user.email # None =>
          last.message = <<"'", current_user.email, "' is not authorized for access">>

\* C10 as stated: the refusal is a redirect to the login route, with the
\* message flashed.
C10_RefusalRedirectsToLogin ==
    [][Refusing =>
          /\ resp'.kind = "redirect"
          /\ resp'.endpoint = "login"
          /\ FlashedRefusal]_vars

\* C10 as amended: the refusal is a redirect to the index route, with the
\* message flashed.
C10_RefusalRedirectsToIndex ==
    [][Refusing =>
          /\ resp'.kind = "redirect"
          /\ resp'.endpoint = "index"
          /\ FlashedRefusal]_vars

\* A user who is logged in but not authorized was refused by name, after an
\* anonymous visitor had been refused.
C10_Witness ==
    /\ http.op = "protected"
    /\ resp.status = 302
    /\ current_user.email = "bob@example.org"
    /\ Len(flashes) >= 2
    /\ flashes[Len(flashes)].message =
          <<"'", "bob@example.org", "' is not authorized for access">>
    /\ \E k \in 1..Len(flashes) : flashes[k].message = <<"Anonymous login attempt failed">>


\* -------------------------------------------------- metrics: SpecMetrics
\* The weights, in ounces, of the shipments on record.
Ounces == {15, 32, 33}

\* The shipments on record when the metrics are asked for: any shipments of
\* those weights made on days of the calendar.
InitMetrics ==
    /\ lazy_map \in BOOLEAN
    /\ handlers = [w \in Workers |-> Resting(0)]
    /\ inmate_unit = [i \in Inmates |-> None]
    /\ lookups = [i \in Inmates |-> <<>>]
    /\ requests = <<>>
    /\ \E n \in 0..MaxShipments :
          \E dates \in [1..n -> 1..Len(Calendar)], weights \in [1..n -> Ounces] :
             shipments = [sid \in 1..n |->
                            [unit |-> "Allred", weight |-> weights[sid],
                             postage |-> AnyPostage,
                             date_shipped |-> Calendar[dates[sid]]]]
    /\ session_postmarkdate = None
    /\ flashes = <<>>
    /\ current_user = Anonymous
    /\ now = 0
    /\ today = Calendar[Len(Calendar)]
    /\ http = Idle
    /\ resp = NoAnswer

ReceiveMetrics ==
    /\ http = Idle
    /\ Receive(ShippingVolumeCall)

NextMetrics ==
    \/ ReceiveMetrics
    \/ shipping_volume
    \/ Respond

SpecMetrics == InitMetrics /\ [][NextMetrics]_vars

\* The ounces shipped in the month written `text`.
OuncesIn(text) ==
    LET weight == [sid \in DOMAIN shipments |-> shipments[sid].weight]
    IN  Sum(weight, {sid \in DOMAIN shipments :
                       YearMonthText(shipments[sid].date_shipped) = text})

\* n / 16 with the fraction cut off.
WholePounds(n) == CHOOSE q \in 0..n : 16 * q <= n /\ n < 16 * (q + 1)

\* C7: every month of the shipping_volume series is reported with the ounces
\* shipped in it divided by 16, the fraction cut off.
C7_PoundsTruncated ==
    (http.op = "shipping_volume" /\ resp # NoAnswer) =>
        \A k \in 1..Len(resp.dates) :
           resp.pounds[k] = WholePounds(OuncesIn(resp.dates[k]))

\* The series reports 2 pounds for a month whose one shipment weighed 32
\* ounces and 2 for another whose one shipment weighed 33.
C7_Witness ==
    /\ http.op = "shipping_volume"
    /\ resp # NoAnswer
    /\ Len(resp.dates) = 2
    /\ \E k, l \in 1..Len(resp.dates) :
          /\ OuncesIn(resp.dates[k]) = 32
          /\ resp.pounds[k] = 2
          /\ OuncesIn(resp.dates[l]) = 33
          /\ resp.pounds[l] = 2


\* ------------------------------------------- the three series: SpecSeries
\* Days on either side of June 2006 and of the turn of that year.
SeriesDays == << <<2006, 5, 31>>, <<2006, 6, 1>>, <<2006, 12, 31>>,
                 <<2007, 1, 1>>, <<2007, 2, 1>> >>

\* The requests and shipments on record when the metrics are asked for: any
\* requests, filled or tossed, postmarked on those days, and any shipments
\* made on them.
InitSeries ==
    /\ lazy_map \in BOOLEAN
    /\ handlers = [w \in Workers |-> Resting(0)]
    /\ inmate_unit = [i \in Inmates |-> None]
    /\ lookups = [i \in Inmates |-> <<>>]
    /\ \E n \in 0..MaxRequests :
          \E days \in [1..n -> 1..Len(SeriesDays)], actions \in [1..n -> {"Filled", "Tossed"}] :
             requests = [r \in 1..n |->
                           [inmate |-> ((r - 1) % 2) + 1, action |-> actions[r],
                            date_postmarked |-> SeriesDays[days[r]],
                            date_processed |-> SeriesDays[Len(SeriesDays)],
                            shipment |-> 0]]
    /\ \E n \in 0..MaxShipments :
          \E days \in [1..n -> 1..Len(SeriesDays)] :
             shipments = [sid \in 1..n |->
                            [unit |-> "Allred", weight |-> AnyWeight,
                             postage |-> AnyPostage,
                             date_shipped |-> SeriesDays[days[sid]]]]
    /\ session_postmarkdate = None
    /\ flashes = <<>>
    /\ current_user = Anonymous
    /\ now = 0
    /\ today = SeriesDays[Len(SeriesDays)]
    /\ http = Idle
    /\ resp = NoAnswer

ReceiveSeries ==
    /\ http = Idle
    /\ \/ Receive(RequestCountsCall)
       \/ Receive(NewRequestCountsCall)
       \/ Receive(ShippingVolumeCall)

NextSeries ==
    \/ ReceiveSeries
    \/ request_counts
    \/ new_request_counts
    \/ shipping_volume
    \/ Respond

SpecSeries == InitSeries /\ [][NextSeries]_vars

\* The month written `text` is June 2006 or a later one.
SinceJune2006(text) == ~TextLess(text, Cutoff)

\* The months, on record, of the rows that a series counts: the requests
\* that were filled, the first filled request since June 2006 of each inmate,
\* the shipments.
MonthsOnRecord(op) ==
    LET filled == {r \in DOMAIN requests : requests[r].action = "Filled"}
        month(r) == YearMonthText(requests[r].date_postmarked)
        since(i) == {month(r) : r \in {q \in filled : /\ requests[q].inmate = i
                                                      /\ SinceJune2006(month(q))}}
    IN  CASE op = "request_counts" -> {month(r) : r \in filled}
          [] op = "new_request_counts" ->
                {t \in UNION {since(i) : i \in Inmates} :
                    \E i \in Inmates :
                       t \in since(i) /\ \A u \in since(i) \ {t} : TextLess(t, u)}
          [] op = "shipping_volume" ->
                {YearMonthText(shipments[sid].date_shipped) : sid \in DOMAIN shipments}

\* C12: each series lists exactly the months since June 2006 that have a row
\* to count, each once and in chronological order.
C12_MonthsSinceCutoffInOrder ==
    (http.op \in {"request_counts", "new_request_counts", "shipping_volume"}
        /\ resp # NoAnswer) =>
        /\ {resp.dates[k] : k \in 1..Len(resp.dates)} =
              {t \in MonthsOnRecord(http.op) : SinceJune2006(t)}
        /\ \A k \in 1..Len(resp.dates) - 1 : TextLess(resp.dates[k], resp.dates[k + 1])

\* ------------------------------------------------- the whole application
Next ==
    \/ ReceiveShip
    \/ ReceiveAdd
    \/ ReceiveView
    \/ ReceiveSearch
    \/ ReceiveAuth
    \/ ReceiveMetrics
    \/ ReceiveSeries
    \/ \E accepted \in {lazy_map, FALSE} : ship_requests(accepted)
    \/ add_request
    \/ delete_request
    \/ view_inmate
    \/ search_inmates
    \/ authorized
    \/ logout
    \/ protected
    \/ shipping_volume
    \/ request_counts
    \/ new_request_counts
    \/ get_flashed_messages
    \/ Tick
    \/ Respond
    \/ ReceiveWorkers
    \/ \E w \in Workers : view_inmate_commit(w)

Spec == Init /\ [][Next]_vars

=============================================================================
